---- MODULE Spec2Model ----
(***************************************************************************)
(* Model of the RAG -> Yahoo -> RSS financial news pipeline:               *)
(*   AI_Chatbot/pipeline/nodes.py   the stage functions                    *)
(*   AI_Chatbot/pipeline/graph.py   build_graph and its routers            *)
(*   AI_Chatbot/clients/yahoo_client.py   the primary news client          *)
(*   rag_stock_chatbot.py           the graph compiled by the front-end    *)
(*   AI_Chatbot/test/test_yahoo_fetch.py  direct call of the news fetcher  *)
(*                                                                         *)
(* Representation.  A Python str is a sequence of one-character strings    *)
(* (ticker texts, queries) or of text chunks (answers: a chunk is a        *)
(* whitespace run, a punctuation mark or a phrase).  A Python value is a   *)
(* record [tag, val]: tag "None", "str" or "list", val a sequence.  The    *)
(* pipeline state is a function from the keys that are present to values,  *)
(* and a node's return value is such a function too, merged into the       *)
(* state by the graph runtime.                                             *)
(***************************************************************************)
EXTENDS Integers, Sequences, FiniteSets, TLC

VARIABLES graph, pc, state, ret, trace, calls, writes

vars == <<graph, pc, state, ret, trace, calls, writes>>

----------------------------------------------------------------------------
(* Bounds of the model *)

\* most matches the vector store returns in the model (limit=3 caps it)
MaxMatches == 4
\* most items the news tool returns for one symbol
MaxItems == 1
\* most entries an RSS feed holds
MaxEntries == 1
\* most items of a list whose text block is built on its own
MaxContextItems == 2
\* most paragraphs of a page scraped on its own
MaxPageParagraphs == 16

----------------------------------------------------------------------------
(* Python values *)

None == [tag |-> "None", val |-> <<>>]
Str(s) == [tag |-> "str", val |-> s]
List(l) == [tag |-> "list", val |-> l]

\* Python truthiness of None, a str or a list
Truthy(v) == v.tag # "None" /\ v.val # <<>>

\* dict.get(key, default)
Get(d, k, default) == IF k \in DOMAIN d THEN d[k] ELSE default

\* the graph runtime's merge of a node's partial update into the state
Merge(d, upd) ==
    [k \in (DOMAIN d) \cup (DOMAIN upd) |-> IF k \in DOMAIN upd THEN upd[k] ELSE d[k]]

EmptyDict == [k \in {} |-> None]

----------------------------------------------------------------------------
(* Python str operations on sequences of characters / chunks *)

Whitespace == {" ", "\n"}

RECURSIVE LStrip(_, _)
LStrip(s, cs) == IF s # <<>> /\ Head(s) \in cs THEN LStrip(Tail(s), cs) ELSE s

RECURSIVE RStrip(_, _)
RStrip(s, cs) ==
    IF s # <<>> /\ s[Len(s)] \in cs THEN RStrip(SubSeq(s, 1, Len(s) - 1), cs) ELSE s

\* str.strip() and str.strip(chars)
Strip(s, cs) == RStrip(LStrip(s, cs), cs)

IsPrefix(p, s) == Len(p) <= Len(s) /\ SubSeq(s, 1, Len(p)) = p

\* str.replace(old, ""): leftmost non-overlapping occurrences removed, one pass
RECURSIVE Remove(_, _)
Remove(s, old) ==
    IF s = <<>> THEN <<>>
    ELSE IF IsPrefix(old, s) THEN Remove(SubSeq(s, Len(old) + 1, Len(s)), old)
    ELSE <<Head(s)>> \o Remove(Tail(s), old)

\* old in s
RECURSIVE Contains(_, _)
Contains(s, old) ==
    IF IsPrefix(old, s) THEN TRUE
    ELSE IF s = <<>> THEN FALSE
    ELSE Contains(Tail(s), old)

LowerToUpper ==
    [c \in {"a", "b", "c", "n", "o", "e", "i", "k", "r", "t", "w"} |->
        CASE c = "a" -> "A" [] c = "b" -> "B" [] c = "c" -> "C" [] c = "n" -> "N"
          [] c = "o" -> "O" [] c = "e" -> "E" [] c = "i" -> "I" [] c = "k" -> "K"
          [] c = "r" -> "R" [] c = "t" -> "T" [] c = "w" -> "W"]

\* str.upper()
Upper(s) == [i \in DOMAIN s |-> IF s[i] \in DOMAIN LowerToUpper THEN LowerToUpper[s[i]] ELSE s[i]]

\* str.split(sep) for a one-character separator: every separator cuts
RECURSIVE Split(_, _)
Split(s, sep) ==
    IF \A i \in DOMAIN s : s[i] # sep THEN <<s>>
    ELSE LET i == CHOOSE j \in DOMAIN s : s[j] = sep /\ \A k \in 1..(j - 1) : s[k] # sep
         IN  <<SubSeq(s, 1, i - 1)>> \o Split(SubSeq(s, i + 1, Len(s)), sep)

\* sep.join(parts)
RECURSIVE Join(_, _)
Join(parts, sep) ==
    IF parts = <<>> THEN <<>>
    ELSE IF Len(parts) = 1 THEN parts[1]
    ELSE parts[1] \o <<sep>> \o Join(Tail(parts), sep)

\* code points of the characters the model uses
Ord ==
    [c \in {"\n", " ", "\"", "'", ",", ".", "/", ":", "A", "B", "C", "E", "G", "I", "K",
            "L", "M", "N", "O", "R", "S", "T", "Y", "a", "b", "c", "e", "i", "k", "n",
            "o", "r", "t"} |->
        CASE c = "\n" -> 10 [] c = " " -> 32 [] c = "\"" -> 34 [] c = "'" -> 39
          [] c = "," -> 44 [] c = "." -> 46 [] c = "/" -> 47 [] c = ":" -> 58
          [] c = "A" -> 65 [] c = "B" -> 66 [] c = "C" -> 67 [] c = "E" -> 69
          [] c = "G" -> 71 [] c = "I" -> 73 [] c = "K" -> 75 [] c = "L" -> 76
          [] c = "M" -> 77 [] c = "N" -> 78 [] c = "O" -> 79 [] c = "R" -> 82
          [] c = "S" -> 83 [] c = "T" -> 84 [] c = "Y" -> 89 [] c = "a" -> 97
          [] c = "b" -> 98 [] c = "c" -> 99 [] c = "e" -> 101 [] c = "i" -> 105
          [] c = "k" -> 107 [] c = "n" -> 110 [] c = "o" -> 111 [] c = "r" -> 114
          [] c = "t" -> 116]

\* str < str: lexicographic by code point
RECURSIVE StrLess(_, _)
StrLess(a, b) ==
    IF b = <<>> THEN FALSE
    ELSE IF a = <<>> THEN TRUE
    ELSE IF Ord[Head(a)] # Ord[Head(b)] THEN Ord[Head(a)] < Ord[Head(b)]
    ELSE StrLess(Tail(a), Tail(b))

\* sorted(set(xs)) for a list of strs
RECURSIVE SortedSet(_)
SortedSet(S) ==
    IF S = {} THEN <<>>
    ELSE LET m == CHOOSE x \in S : \A y \in S : x = y \/ StrLess(x, y)
         IN  <<m>> \o SortedSet(S \ {m})

Range(s) == {s[i] : i \in DOMAIN s}

\* nominal character count of each text chunk; a ticker character counts one
ChunkLen(c) ==
    CASE c = "B500" -> 500 [] c = "B150" -> 150 [] c = "D100" -> 100 [] c = "S50" -> 50
      [] c = "B7000" -> 7000
      [] c = "S600" -> 600
      [] OTHER -> 1

RECURSIVE TextLen(_)
TextLen(t) == IF t = <<>> THEN 0 ELSE ChunkLen(Head(t)) + TextLen(Tail(t))

\* t[:n], for texts whose chunk boundaries the cut falls on
RECURSIVE Take(_, _)
Take(t, n) ==
    IF t = <<>> \/ ChunkLen(Head(t)) > n THEN <<>>
    ELSE <<Head(t)>> \o Take(Tail(t), n - ChunkLen(Head(t)))

\* xs[:n] of a list
Prefix(xs, n) == SubSeq(xs, 1, IF Len(xs) < n THEN Len(xs) ELSE n)

\* the first n characters of the chunk c
Piece(c, n) == [chunk |-> c, len |-> n]

\* the number of chunks of t, counted from the i-th, that n characters hold whole
RECURSIVE Whole(_, _, _)
Whole(t, i, n) ==
    IF i > Len(t) \/ ChunkLen(t[i]) > n THEN i - 1
    ELSE Whole(t, i + 1, n - ChunkLen(t[i]))

\* a slice that cuts nowhere
Cut_uncut(t, n) == [whole |-> t, part |-> <<>>]

\* text[:n], exact: the chunks kept whole, then the first characters of the
\* chunk the cut falls in
Cut(t, n) ==
    LET k == Whole(t, 1, n)
        rest == n - TextLen(SubSeq(t, 1, k))
    IN  [whole |-> SubSeq(t, 1, k),
         part |-> IF k < Len(t) /\ rest > 0 THEN <<Piece(t[k + 1], rest)>> ELSE <<>>]

\* sep.join(parts) for a separator of several characters
RECURSIVE JoinWith(_, _)
JoinWith(parts, sep) ==
    IF parts = <<>> THEN <<>>
    ELSE IF Len(parts) = 1 THEN parts[1]
    ELSE parts[1] \o sep \o JoinWith(Tail(parts), sep)

\* str(i + 1) of the enumerate index
Digits == <<"1", "2", "3", "4", "5">>

----------------------------------------------------------------------------
(* Program constants and literals *)

\* limit=3 of qdrant.search
SearchLimit == 3
\* r.score >= 0.5, scores in hundredths
ScoreThreshold == 50
\* num_articles=5
NumArticles == 5
\* len(text) < 200
MinScrapedLen == 200
\* paragraphs[:15]
MaxParagraphs == 15
\* full_text[:500]
SummaryLen == 500
\* )[:7000]
ContextLimit == 7000

NA == <<"N", "/", "A">>
NoRelevantPhrase == <<"No relevant data found">>
NoRelevantData == <<"No relevant data found", ".">>
NoRecentArticles(ticker) == <<"No recent articles found for", " ">> \o ticker \o <<".">>
NoRssNews(ticker) == <<"No RSS news found for", " ">> \o ticker \o <<".">>
Unknown == <<"U", "n", "k", "n", "o", "w", "n">>

\* a call of an external service or client, as a node's run makes it
Call(fn, res, out) == [fn |-> fn, res |-> res, out |-> out]

Result(raised, upd, cs) == [raised |-> raised, upd |-> upd, calls |-> cs]

----------------------------------------------------------------------------
(* nodes.py: semantic_search *)

\* the store's answer: the first `limit` hits, best first
qdrant_search(hits) == Prefix(hits, SearchLimit)

\* the scores of the matches
ScoresOf(results) == [i \in DOMAIN results |-> [score |-> results[i].score]]

\* the document made of a match's payload and score
Doc(r) == [title |-> r.title, ticker |-> r.ticker, full_text |-> r.full_text, score |-> r.score]

\* mutant: the threshold test made strict
semantic_search_strict(st, store) ==
    IF store.kind = "raise" THEN Result(TRUE, EmptyDict, <<Call("qdrant.search", "raise", <<>>)>>)
    ELSE
      LET results == qdrant_search(store.hits)
          filtered == SelectSeq(results, LAMBDA r : r.score > ScoreThreshold)
          cs == <<Call("qdrant.search", "ok", ScoresOf(results))>>
      IN  IF filtered = <<>> THEN Result(FALSE, [retrieved_docs |-> None], cs)
          ELSE Result(FALSE,
                      [retrieved_docs |-> List([i \in DOMAIN filtered |-> Doc(filtered[i])])],
                      cs)

\* mutant: the filtered list returned as it is, empty or not
semantic_search_emptylist(st, store) ==
    IF store.kind = "raise" THEN Result(TRUE, EmptyDict, <<Call("qdrant.search", "raise", <<>>)>>)
    ELSE
      LET results == qdrant_search(store.hits)
          filtered == SelectSeq(results, LAMBDA r : r.score >= ScoreThreshold)
          cs == <<Call("qdrant.search", "ok", ScoresOf(results))>>
      IN  Result(FALSE,
                 [retrieved_docs |-> List([i \in DOMAIN filtered |-> Doc(filtered[i])])],
                 cs)

semantic_search(st, store) ==
    IF store.kind = "raise" THEN Result(TRUE, EmptyDict, <<Call("qdrant.search", "raise", <<>>)>>)
    ELSE
      LET results == qdrant_search(store.hits)
          filtered == SelectSeq(results, LAMBDA r : r.score >= ScoreThreshold)
          cs == <<Call("qdrant.search", "ok", ScoresOf(results))>>
      IN  IF filtered = <<>> THEN Result(FALSE, [retrieved_docs |-> None], cs)
          ELSE Result(FALSE,
                      [retrieved_docs |-> List([i \in DOMAIN filtered |-> Doc(filtered[i])])],
                      cs)

(* nodes.py: summarize *)

\* f"[{i+1}] {doc['title']} ({doc['ticker']})\n{doc['full_text']}"
DocBlock(i, doc) ==
    <<"[", Digits[i], "]", " ">> \o doc.title \o <<" ", "(">> \o doc.ticker \o <<")", "\n">>
        \o doc.full_text

\* "\n\n".join([...])[:7000]
DocsContext(docs) ==
    Cut(JoinWith([i \in DOMAIN docs |-> DocBlock(i, docs[i])], <<"\n", "\n">>), ContextLimit)

\* response.text.strip() if response and response.text else "No relevant data found."
AnswerText(gen) ==
    IF gen.kind = "text" /\ gen.text # <<>> THEN Strip(gen.text, Whitespace) ELSE NoRelevantData

\* mutant: the no-relevant-data return carries no source
summarize_nosource(st, gen) ==
    LET retrieved_docs == Get(st, "retrieved_docs", List(<<>>)) IN
    IF ~Truthy(retrieved_docs)
    THEN Result(FALSE, [answer |-> Str(NoRelevantData)], <<>>)
    ELSE IF gen.kind = "raise"
    THEN Result(TRUE, EmptyDict, <<Call("generate_content", "raise", <<>>)>>)
    ELSE
      LET answer_text == AnswerText(gen)
          cs == <<Call("generate_content", gen.kind, gen.text)>>
      IN  IF Contains(answer_text, NoRelevantPhrase)
          THEN Result(FALSE, [answer |-> Str(answer_text)], cs)
          ELSE Result(FALSE, [answer |-> Str(answer_text), source |-> Str(<<"rag">>)], cs)

summarize(st, gen) ==
    LET retrieved_docs == Get(st, "retrieved_docs", List(<<>>)) IN
    IF ~Truthy(retrieved_docs)
    THEN Result(FALSE, [answer |-> Str(NoRelevantData), source |-> Str(<<"rag_empty">>)], <<>>)
    ELSE IF gen.kind = "raise"
    THEN Result(TRUE, EmptyDict, <<Call("generate_content", "raise", <<>>)>>)
    ELSE
      LET answer_text == AnswerText(gen)
          cs == <<Call("generate_content", gen.kind, gen.text)>>
      IN  IF Contains(answer_text, NoRelevantPhrase)
          THEN Result(FALSE, [answer |-> Str(answer_text), source |-> Str(<<"rag_empty">>)], cs)
          ELSE Result(FALSE, [answer |-> Str(answer_text), source |-> Str(<<"rag">>)], cs)

(* nodes.py: extract_ticker *)

\* mutant: the tokens joined as they come, neither deduplicated nor sorted
NormalizeTicker_asis(raw_ticker) ==
    LET t1 == Upper(Remove(Remove(Remove(Remove(raw_ticker, <<"\"">>), <<"'">>), <<" ">>),
                           <<"\n">>))
        t2 == Strip(Remove(Remove(t1, <<"T", "I", "C", "K", "E", "R", ":">>),
                           <<"S", "Y", "M", "B", "O", "L", ":">>), {","})
        tickers == SelectSeq(Split(t2, ","), LAMBDA t : t # <<>> /\ t # NA)
    IN  IF tickers = <<>> THEN NA ELSE Join(tickers, ",")

\* Step 2 of extract_ticker: the normalisation of the Generator's raw text
NormalizeTicker(raw_ticker) ==
    LET t1 == Upper(Remove(Remove(Remove(Remove(raw_ticker, <<"\"">>), <<"'">>), <<" ">>),
                           <<"\n">>))
        t2 == Strip(Remove(Remove(t1, <<"T", "I", "C", "K", "E", "R", ":">>),
                           <<"S", "Y", "M", "B", "O", "L", ":">>), {","})
        tickers == SelectSeq(Split(t2, ","), LAMBDA t : t # <<>> /\ t # NA)
    IN  IF tickers = <<>> THEN NA ELSE Join(SortedSet(Range(tickers)), ",")

\* Step 1 of extract_ticker: the Generator's raw text, "N/A" on any failure
RawTicker(gen) ==
    IF gen.kind = "text" /\ gen.text # <<>> THEN Strip(gen.text, Whitespace) ELSE NA

\* mutant: the Generator call made outside the try block
extract_ticker_notry(st, gen) ==
    LET query == Strip(Get(st, "query", Str(<<>>)).val, Whitespace) IN
    IF query = <<>> THEN Result(FALSE, [ticker |-> Str(NA)], <<>>)
    ELSE IF gen.kind = "raise"
    THEN Result(TRUE, EmptyDict, <<Call("generate_content", "raise", <<>>)>>)
    ELSE Result(FALSE, [ticker |-> Str(NormalizeTicker(RawTicker(gen)))],
                <<Call("generate_content", gen.kind, gen.text)>>)

extract_ticker(st, gen) ==
    LET query == Strip(Get(st, "query", Str(<<>>)).val, Whitespace) IN
    IF query = <<>> THEN Result(FALSE, [ticker |-> Str(NA)], <<>>)
    ELSE Result(FALSE, [ticker |-> Str(NormalizeTicker(RawTicker(gen)))],
                <<Call("generate_content", gen.kind, gen.text)>>)

(* nodes.py: scrape_yahoo_article, get_yahoo_rss_news *)

\* soup.select("article p") or soup.select("p"): the paragraphs' texts
Paragraphs(page) == IF page.article_p # <<>> THEN page.article_p ELSE page.p

scrape_yahoo_article(page) ==
    IF page.status # "200" THEN <<>>
    ELSE
      LET text == Join(Paragraphs(page), " ")
          text2 == IF TextLen(text) < MinScrapedLen /\ page.desc # <<>> THEN page.desc ELSE text
      IN  Strip(text2, Whitespace)

\* mutant: the scraped body taken as it is, without the summary fallback
RssFullText_scrapedonly(e) == scrape_yahoo_article(e.page)

\* scrape_yahoo_article(e.link) or e.get("summary", "")
RssFullText(e) ==
    LET scraped == scrape_yahoo_article(e.page) IN
    IF scraped # <<>> THEN scraped ELSE e.summary

get_yahoo_rss_news(ticker, feed) ==
    IF feed.kind = "raise" THEN [raised |-> TRUE, val |-> <<>>]
    ELSE IF feed.entries = <<>> THEN [raised |-> FALSE, val |-> <<>>]
    ELSE
      LET es == Prefix(feed.entries, NumArticles) IN
      [raised |-> FALSE,
       val |-> [i \in DOMAIN es |->
                  [ticker |-> Upper(ticker), title |-> es[i].title, link |-> es[i].link,
                   summary |-> es[i].summary, full_text |-> RssFullText(es[i]),
                   published |-> es[i].published]]]

(* clients/yahoo_client.py: get_yahoo_news *)

\* the inline scrape: the first 15 paragraphs of a page answered with 200
InlineScrape(page) ==
    IF page.status # "200" THEN <<>>
    ELSE Join(Prefix(Paragraphs(page), MaxParagraphs), " ")

ParsedArticle(t, item) ==
    LET full_text == InlineScrape(item.page) IN
    [ticker |-> t, title |-> item.title, link |-> item.link,
     summary |-> IF full_text # <<>> THEN Take(full_text, SummaryLen) ELSE <<>>,
     full_text |-> full_text]

\* the articles parsed from the items the tool returned for symbol t
RECURSIVE ParseItems(_, _)
ParseItems(t, items) ==
    IF items = <<>> THEN <<>>
    ELSE LET item == Head(items) IN
         (IF item.kind # "dict" \/ item.link = <<>> THEN <<>> ELSE <<ParsedArticle(t, item)>>)
             \o ParseItems(t, Tail(items))

\* [t.strip().upper() for t in ticker.split(",") if t.strip()]
SymbolsOf(ticker) ==
    LET parts == SelectSeq(Split(ticker, ","), LAMBDA t : Strip(t, Whitespace) # <<>>)
    IN  [i \in DOMAIN parts |-> Upper(Strip(parts[i], Whitespace))]

RECURSIVE FetchSymbols(_, _)
FetchSymbols(tickers, tool) ==
    IF tickers = <<>> THEN [raised |-> FALSE, val |-> <<>>]
    ELSE
      LET t == Head(tickers)
          raw_articles == tool[t]
          rest == FetchSymbols(Tail(tickers), tool)
      IN  IF raw_articles.kind \in {"raise", "string", "empty"} THEN rest
          ELSE IF raw_articles.kind = "object" THEN [raised |-> TRUE, val |-> <<>>]
          ELSE [raised |-> rest.raised,
                val |-> IF rest.raised THEN <<>>
                        ELSE ParseItems(t, raw_articles.items) \o rest.val]

get_yahoo_news(ticker, tool) == FetchSymbols(SymbolsOf(ticker), tool)

(* nodes.py: yahoo_fetch_with_fallback *)

FetchRes(r) == IF r.raised THEN "raise" ELSE IF r.val = <<>> THEN "empty" ELSE "nonempty"

\* mutant: the RSS feed asked first, the primary service as the fallback
yahoo_fetch_with_fallback_rssfirst(st, tool, feed) ==
    LET ticker == Get(st, "ticker", Str(NA)) IN
    IF ~Truthy(ticker) \/ ticker = Str(NA)
    THEN Result(FALSE, [fetched_articles |-> List(<<>>), source |-> Str(<<"none">>)], <<>>)
    ELSE
      LET rss_articles == get_yahoo_rss_news(ticker.val, feed)
          c1 == <<Call("get_yahoo_rss_news", FetchRes(rss_articles), rss_articles.val)>>
      IN  IF ~rss_articles.raised /\ Len(rss_articles.val) > 0
          THEN Result(FALSE, [fetched_articles |-> List(rss_articles.val),
                              source |-> Str(<<"rss_feed">>)], c1)
          ELSE
            LET articles == get_yahoo_news(ticker.val, tool)
                c2 == c1 \o <<Call("get_yahoo_news", FetchRes(articles), articles.val)>>
            IN  IF ~articles.raised /\ Len(articles.val) > 0
                THEN Result(FALSE, [fetched_articles |-> List(articles.val),
                                    source |-> Str(<<"yahoo_api">>)], c2)
                ELSE Result(FALSE, [fetched_articles |-> List(<<>>),
                                    source |-> Str(<<"none">>)], c2)

\* mutant: the RSS articles returned under the primary service's tag
yahoo_fetch_with_fallback_wrongtag(st, tool, feed) ==
    LET ticker == Get(st, "ticker", Str(NA)) IN
    IF ~Truthy(ticker) \/ ticker = Str(NA)
    THEN Result(FALSE, [fetched_articles |-> List(<<>>), source |-> Str(<<"none">>)], <<>>)
    ELSE
      LET articles == get_yahoo_news(ticker.val, tool)
          c1 == <<Call("get_yahoo_news", FetchRes(articles), articles.val)>>
      IN  IF ~articles.raised /\ Len(articles.val) > 0
          THEN Result(FALSE, [fetched_articles |-> List(articles.val),
                              source |-> Str(<<"yahoo_api">>)], c1)
          ELSE
            LET rss_articles == get_yahoo_rss_news(ticker.val, feed)
                c2 == c1 \o <<Call("get_yahoo_rss_news", FetchRes(rss_articles),
                                   rss_articles.val)>>
            IN  IF ~rss_articles.raised /\ Len(rss_articles.val) > 0
                THEN Result(FALSE, [fetched_articles |-> List(rss_articles.val),
                                    source |-> Str(<<"yahoo_api">>)], c2)
                ELSE Result(FALSE, [fetched_articles |-> List(<<>>),
                                    source |-> Str(<<"none">>)], c2)

\* mutant: the RSS fetch made outside the try block
yahoo_fetch_with_fallback_notry(st, tool, feed) ==
    LET ticker == Get(st, "ticker", Str(NA)) IN
    IF ~Truthy(ticker) \/ ticker = Str(NA)
    THEN Result(FALSE, [fetched_articles |-> List(<<>>), source |-> Str(<<"none">>)], <<>>)
    ELSE
      LET articles == get_yahoo_news(ticker.val, tool)
          c1 == <<Call("get_yahoo_news", FetchRes(articles), articles.val)>>
      IN  IF ~articles.raised /\ Len(articles.val) > 0
          THEN Result(FALSE, [fetched_articles |-> List(articles.val),
                              source |-> Str(<<"yahoo_api">>)], c1)
          ELSE
            LET rss_articles == get_yahoo_rss_news(ticker.val, feed)
                c2 == c1 \o <<Call("get_yahoo_rss_news", FetchRes(rss_articles),
                                   rss_articles.val)>>
            IN  IF rss_articles.raised THEN Result(TRUE, EmptyDict, c2)
                ELSE IF Len(rss_articles.val) > 0
                THEN Result(FALSE, [fetched_articles |-> List(rss_articles.val),
                                    source |-> Str(<<"rss_feed">>)], c2)
                ELSE Result(FALSE, [fetched_articles |-> List(<<>>),
                                    source |-> Str(<<"none">>)], c2)

yahoo_fetch_with_fallback(st, tool, feed) ==
    LET ticker == Get(st, "ticker", Str(NA)) IN
    IF ~Truthy(ticker) \/ ticker = Str(NA)
    THEN Result(FALSE, [fetched_articles |-> List(<<>>), source |-> Str(<<"none">>)], <<>>)
    ELSE
      LET articles == get_yahoo_news(ticker.val, tool)
          c1 == <<Call("get_yahoo_news", FetchRes(articles), articles.val)>>
      IN  IF ~articles.raised /\ Len(articles.val) > 0
          THEN Result(FALSE, [fetched_articles |-> List(articles.val),
                              source |-> Str(<<"yahoo_api">>)], c1)
          ELSE
            LET rss_articles == get_yahoo_rss_news(ticker.val, feed)
                c2 == c1 \o <<Call("get_yahoo_rss_news", FetchRes(rss_articles), rss_articles.val)>>
            IN  IF ~rss_articles.raised /\ Len(rss_articles.val) > 0
                THEN Result(FALSE, [fetched_articles |-> List(rss_articles.val),
                                    source |-> Str(<<"rss_feed">>)], c2)
                ELSE Result(FALSE, [fetched_articles |-> List(<<>>),
                                    source |-> Str(<<"none">>)], c2)

(* nodes.py: summarize_articles *)

\* f"[{i+1}] {title}\n{summary}\n{full_text}\n{link}"
ArticleBlock(i, a) ==
    <<"[", Digits[i], "]", " ">> \o a.title \o <<"\n">> \o a.summary \o <<"\n">> \o a.full_text
        \o <<"\n">> \o a.link

\* "\n\n".join([...])[:7000]
ArticlesContext(articles) ==
    Cut(JoinWith([i \in DOMAIN articles |-> ArticleBlock(i, articles[i])], <<"\n", "\n">>),
        ContextLimit)

\* mutant: the summary is returned without the source it was made from
summarize_articles_nosource(st, gen) ==
    LET ticker == Get(st, "ticker", Str(Unknown))
        articles == Get(st, "fetched_articles", List(<<>>))
    IN  IF ~Truthy(articles)
        THEN Result(FALSE, [answer |-> Str(NoRecentArticles(ticker.val))], <<>>)
        ELSE
          LET answer_text == IF gen.kind = "raise" THEN NoRelevantData ELSE AnswerText(gen)
          IN  Result(FALSE, [answer |-> Str(answer_text)],
                     <<Call("generate_content", gen.kind, gen.text)>>)

\* mutant: the Generator asked even when there is no article to summarize
summarize_articles_alwayscalls(st, gen) ==
    LET source == Get(st, "source", Str(<<"unknown">>))
        answer_text == IF gen.kind = "raise" THEN NoRelevantData ELSE AnswerText(gen)
    IN  Result(FALSE, [answer |-> Str(answer_text), source |-> source],
               <<Call("generate_content", gen.kind, gen.text)>>)

summarize_articles(st, gen) ==
    LET ticker == Get(st, "ticker", Str(Unknown))
        articles == Get(st, "fetched_articles", List(<<>>))
        source == Get(st, "source", Str(<<"unknown">>))
    IN  IF ~Truthy(articles)
        THEN Result(FALSE, [answer |-> Str(NoRecentArticles(ticker.val)), source |-> source],
                    <<>>)
        ELSE
          LET answer_text == IF gen.kind = "raise" THEN NoRelevantData ELSE AnswerText(gen)
          IN  Result(FALSE, [answer |-> Str(answer_text), source |-> source],
                     <<Call("generate_content", gen.kind, gen.text)>>)

(* graph.py: routers and the RSS node *)

\* mutant: the length test off by one
route_after_semantic_offbyone(st) ==
    LET docs == Get(st, "retrieved_docs", None) IN
    IF Truthy(docs) /\ Len(docs.val) > 1 THEN "summarize_rag" ELSE "extract_ticker"

\* mutant: the retrieved documents ignored
route_after_semantic_ignoredocs(st) == "extract_ticker"

route_after_semantic(st) ==
    LET docs == Get(st, "retrieved_docs", None) IN
    IF Truthy(docs) /\ Len(docs.val) > 0 THEN "summarize_rag" ELSE "extract_ticker"

\* mutant: the source test dropped
route_after_yahoo_anysource(st) ==
    LET fetched == Get(st, "fetched_articles", List(<<>>)) IN
    IF Truthy(fetched) /\ Len(fetched.val) > 0 THEN "summarize_yahoo" ELSE "rss_fallback"

\* mutant: the run ended after the fetch when the primary service gave nothing
route_after_yahoo_skip(st) ==
    LET fetched == Get(st, "fetched_articles", List(<<>>))
        src == Get(st, "source", Str(<<"none">>))
    IN  IF Truthy(fetched) /\ Len(fetched.val) > 0 /\ src = Str(<<"yahoo_api">>)
        THEN "summarize_yahoo" ELSE "END"

route_after_yahoo(st) ==
    LET fetched == Get(st, "fetched_articles", List(<<>>))
        src == Get(st, "source", Str(<<"none">>))
    IN  IF Truthy(fetched) /\ Len(fetched.val) > 0 /\ src = Str(<<"yahoo_api">>)
        THEN "summarize_yahoo" ELSE "rss_fallback"

rss_fallback_node(st, feed, gen) ==
    LET ticker == Get(st, "ticker", Str(Unknown))
        rss_articles == get_yahoo_rss_news(ticker.val, feed)
        c1 == <<Call("get_yahoo_rss_news", FetchRes(rss_articles), rss_articles.val)>>
    IN  IF rss_articles.raised THEN Result(TRUE, EmptyDict, c1)
        ELSE IF rss_articles.val = <<>>
        THEN Result(FALSE, [answer |-> Str(NoRssNews(ticker.val)),
                            source |-> Str(<<"rss_feed">>)], c1)
        ELSE
          LET r == summarize_articles([ticker |-> ticker,
                                       fetched_articles |-> List(rss_articles.val),
                                       source |-> Str(<<"rss_feed">>)], gen)
          IN  Result(r.raised, r.upd, c1 \o r.calls)

(* rag_stock_chatbot.py: the front-end's router *)

\* lambda s: "summarize_rag" if s.get("retrieved_docs") else "extract_ticker"
frontend_route(st) ==
    IF Truthy(Get(st, "retrieved_docs", None)) THEN "summarize_rag" ELSE "extract_ticker"

----------------------------------------------------------------------------
(* The inputs: what the user, the vector store, the Generator, the news     *)
(* tool, the RSS feed and the scraped pages may answer                      *)

Queries == {<<"A", "B", "?">>, <<" ", "\n">>}

\* similarity scores in hundredths
Scores == {30, 50, 90}

\* the store's hits, best first
\* the full_text of a stored document: a short one, one longer than the context
DocTexts == {<<"B150">>, <<"B7000">>}

Hits == [score : Scores, title : {<<"title">>}, ticker : {<<"A", "B">>}, full_text : DocTexts]

HitLists ==
    {h \in UNION {[1..n -> Hits] : n \in 0..MaxMatches} :
        \A i \in 1..(Len(h) - 1) : h[i].score >= h[i + 1].score}

StoreOutcomes ==
    {[kind |-> "raise", hits |-> <<>>]} \cup {[kind |-> "ok", hits |-> h] : h \in HitLists}

GenRaise == [kind |-> "raise", text |-> <<>>]
GenNoText == [kind |-> "none", text |-> <<>>]
GenText(t) == [kind |-> "text", text |-> t]

SummaryTexts ==
    {<<"summary">>, <<" ", "summary", "\n">>, <<" ">>, NoRelevantData,
     <<"Sorry", ".", " ", "No relevant data found", ".">>}

SummaryOutcomes == {GenRaise, GenNoText} \cup {GenText(t) : t \in SummaryTexts}

RawTickerTexts ==
    {<<"A", "B">>,
     <<"a", "b">>,
     <<"A", "B", ",", "a", "b", ",", "A", "B">>,
     <<"C", ",", "A", "B", "\n">>,
     <<"\"", "C", "\"", ",", " ", "A", "B">>,
     <<"T", "i", "c", "k", "e", "r", ":", " ", "A", "B">>,
     <<"N", "/", "A">>,
     <<"n", "/", "a">>,
     <<",", ",">>,
     <<" ">>,
     <<"N", "o", " ", "t", "i", "c", "k", "e", "r">>,
     <<"T", "I", "C", "T", "I", "C", "K", "E", "R", ":", "K", "E", "R", ":", "A", "B">>}

TickerOutcomes == {GenRaise, GenNoText} \cup {GenText(t) : t \in RawTickerTexts}

Page(status, article_p, p, desc) ==
    [status |-> status, article_p |-> article_p, p |-> p, desc |-> desc]

\* the paragraphs of a page whose text is longer than the context
LongPage == << <<"B500">>, <<"B7000">> >>

Pages ==
    {Page("raise", <<>>, <<>>, <<>>),
     Page("404", <<>>, <<>>, <<>>),
     Page("200", <<>>, << <<"B150">> >>, <<"D100">>),
     Page("200", LongPage, LongPage, <<"D100">>)}

Title == <<"title">>
Link == <<"url">>

Items ==
    {[kind |-> "notdict", title |-> <<>>, link |-> <<>>, page |-> Page("404", <<>>, <<>>, <<>>)],
     [kind |-> "dict", title |-> Title, link |-> <<>>, page |-> Page("404", <<>>, <<>>, <<>>)]}
    \cup {[kind |-> "dict", title |-> Title, link |-> Link, page |-> pg] : pg \in Pages}

\* what the news tool answers for one symbol
ToolOutcomes ==
    {[kind |-> k, items |-> <<>>] : k \in {"raise", "string", "empty", "object"}}
    \cup {[kind |-> "items", items |-> is] :
            is \in UNION {[1..n -> Items] : n \in 1..MaxItems}}

\* the summary of a feed entry: none, or one longer than the primary client's excerpts
EntrySummaries == {<<>>, <<"S600">>}

Entries ==
    {[title |-> Title, link |-> Link, summary |-> sm, published |-> <<"date">>, page |-> pg] :
        sm \in EntrySummaries, pg \in Pages}

FeedOutcomes ==
    {[kind |-> "raise", entries |-> <<>>]}
    \cup {[kind |-> "ok", entries |-> es] :
            es \in UNION {[1..n -> Entries] : n \in 0..MaxEntries}}

\* the tool's answers for the symbols of a ticker string
ToolsFor(st) == [Range(SymbolsOf(Get(st, "ticker", Str(NA)).val)) -> ToolOutcomes]

\* the feeds a call can meet: the feed is read only when the call fetches it
FeedsFor(st, tool) ==
    LET r == yahoo_fetch_with_fallback(st, tool, [kind |-> "ok", entries |-> <<>>]) IN
    IF \E i \in DOMAIN r.calls : r.calls[i].fn = "get_yahoo_rss_news"
    THEN FeedOutcomes
    ELSE {[kind |-> "ok", entries |-> <<>>]}

TestTickers == {<<>>, NA, <<"G", "O", "O", "G">>, <<"A", "B", ",", "C">>}

Graphs == {"build_graph", "frontend", "test_yahoo_fetch"}

----------------------------------------------------------------------------
(* The graph runtime *)

Tagged(node, cs) == [i \in DOMAIN cs |-> [node |-> node, fn |-> cs[i].fn,
                                          res |-> cs[i].res, out |-> cs[i].out]]

\* one node runs: its update is merged and the edge to `next` taken, or its
\* exception leaves graph.invoke
Run(node, r, next) ==
    /\ calls' = calls \o Tagged(node, r.calls)
    /\ graph' = graph
    /\ IF r.raised
       THEN /\ pc' = "aborted"
            /\ UNCHANGED <<state, ret, writes>>
       ELSE /\ state' = Merge(state, r.upd)
            /\ ret' = r.upd
            /\ writes' = Append(writes, [node |-> node, keys |-> DOMAIN r.upd])
            /\ pc' = next
    /\ trace' = Append(trace, pc')

Init ==
    /\ graph \in Graphs
    /\ IF graph = "test_yahoo_fetch"
       THEN /\ pc = "test_yahoo_news"
            /\ state \in {EmptyDict} \cup {[ticker |-> Str(t)] : t \in TestTickers}
       ELSE /\ pc = "semantic_search"
            /\ state \in {[query |-> Str(q)] : q \in Queries}
    /\ ret = EmptyDict
    /\ trace = <<pc>>
    /\ calls = <<>>
    /\ writes = <<>>

SemanticSearch ==
    /\ pc = "semantic_search"
    /\ \E store \in StoreOutcomes :
         \E r \in {semantic_search(state, store)} :
            LET st2 == Merge(state, r.upd)
            IN  Run("semantic_search", r,
                    IF graph = "build_graph" THEN route_after_semantic(st2)
                    ELSE frontend_route(st2))

SummarizeRag ==
    /\ pc = "summarize_rag"
    /\ \E gen \in SummaryOutcomes :
         \E r \in {summarize(state, gen)} : Run("summarize_rag", r, "END")

ExtractTicker ==
    /\ pc = "extract_ticker"
    /\ \E gen \in TickerOutcomes :
         \E r \in {extract_ticker(state, gen)} :
            Run("extract_ticker", r,
                IF graph = "build_graph" THEN "yahoo_fetch" ELSE "yahoo_fetch_with_fallback")

\* build_graph's yahoo_fetch node and its conditional edge
YahooFetch ==
    /\ pc = "yahoo_fetch"
    /\ \E tool \in ToolsFor(state) : \E feed \in FeedsFor(state, tool) :
         \E r \in {yahoo_fetch_with_fallback(state, tool, feed)} :
            Run("yahoo_fetch", r, route_after_yahoo(Merge(state, r.upd)))

SummarizeYahoo ==
    /\ pc = "summarize_yahoo"
    /\ \E gen \in SummaryOutcomes :
         \E r \in {summarize_articles(state, gen)} : Run("summarize_yahoo", r, "END")

RssFallback ==
    /\ pc = "rss_fallback"
    /\ \E feed \in FeedOutcomes, gen \in SummaryOutcomes :
         \E r \in {rss_fallback_node(state, feed, gen)} : Run("rss_fallback", r, "END")

\* the front-end's yahoo_fetch_with_fallback node and its fixed edge
FrontendFetch ==
    /\ pc = "yahoo_fetch_with_fallback"
    /\ \E tool \in ToolsFor(state) : \E feed \in FeedsFor(state, tool) :
         \E r \in {yahoo_fetch_with_fallback(state, tool, feed)} :
            Run("yahoo_fetch_with_fallback", r, "summarize_articles")

FrontendSummarize ==
    /\ pc = "summarize_articles"
    /\ \E gen \in SummaryOutcomes :
         \E r \in {summarize_articles(state, gen)} : Run("summarize_articles", r, "END")

\* test_yahoo_news: the fetcher called on a bare state, its result only read
TestYahooNews ==
    /\ pc = "test_yahoo_news"
    /\ \E tool \in ToolsFor(state) : \E feed \in FeedsFor(state, tool) :
         \E r \in {yahoo_fetch_with_fallback(state, tool, feed)} :
         /\ calls' = calls \o Tagged("test_yahoo_news", r.calls)
         /\ ret' = r.upd
         /\ writes' = Append(writes, [node |-> "test_yahoo_news", keys |-> DOMAIN r.upd])
         /\ pc' = "END"
         /\ trace' = Append(trace, "END")
         /\ UNCHANGED <<graph, state>>

Next ==
    \/ SemanticSearch
    \/ SummarizeRag
    \/ ExtractTicker
    \/ YahooFetch
    \/ SummarizeYahoo
    \/ RssFallback
    \/ FrontendFetch
    \/ FrontendSummarize
    \/ TestYahooNews

Spec == Init /\ [][Next]_vars

----------------------------------------------------------------------------
(* The text block of the two summarizers and the two scrapers, each applied *)
(* on inputs of its own                                                     *)

\* documents semantic_search stores, and articles either fetcher stores
FnDocs == {Doc(h) : h \in {x \in Hits : x.score >= ScoreThreshold}}

FnArticles ==
    UNION {Range(ParseItems(<<"A", "B">>, <<item>>)) : item \in Items}
    \cup UNION {Range(get_yahoo_rss_news(<<"A", "B">>, [kind |-> "ok", entries |-> <<e>>]).val) :
                  e \in Entries}

\* nonempty lists of at most MaxContextItems elements of S
ListsOf(S) == UNION {[1..n -> S] : n \in 1..MaxContextItems}

\* a page of k paragraphs: those after the first 15 differ from the first 15
ParagraphPage(k) ==
    LET ps == [i \in 1..k |-> IF i <= MaxParagraphs THEN <<"B500">> ELSE <<"B150">>]
    IN  Page("200", ps, ps, <<"D100">>)

FnPages == Pages \cup {ParagraphPage(k) : k \in 1..MaxPageParagraphs}

FnInit ==
    /\ graph \in {"summarize", "summarize_articles", "scrape"}
    /\ pc = "call"
    /\ state \in CASE graph = "summarize" -> {[retrieved_docs |-> List(d)] : d \in ListsOf(FnDocs)}
                  [] graph = "summarize_articles" ->
                        {[fetched_articles |-> List(a)] : a \in ListsOf(FnArticles)}
                  [] OTHER -> {[page |-> pg] : pg \in FnPages}
    /\ ret = EmptyDict
    /\ trace = <<pc>>
    /\ calls = <<>>
    /\ writes = <<>>

\* the function fn returns val
Return(fn, val) ==
    /\ pc = "call"
    /\ pc' = fn
    /\ ret' = [val |-> val]
    /\ trace' = Append(trace, fn)
    /\ UNCHANGED <<graph, state, calls, writes>>

BuildDocsContext ==
    /\ graph = "summarize"
    /\ Return("summarize", DocsContext(state["retrieved_docs"].val))

BuildArticlesContext ==
    /\ graph = "summarize_articles"
    /\ Return("summarize_articles", ArticlesContext(state["fetched_articles"].val))

ScrapeArticle ==
    /\ graph = "scrape"
    /\ Return("scrape_yahoo_article", scrape_yahoo_article(state["page"]))

ScrapeInline ==
    /\ graph = "scrape"
    /\ Return("get_yahoo_news", InlineScrape(state["page"]))

FnNext ==
    \/ BuildDocsContext
    \/ BuildArticlesContext
    \/ ScrapeArticle
    \/ ScrapeInline

FnSpec == FnInit /\ [][FnNext]_vars

----------------------------------------------------------------------------
(* The two graphs run side by side on the same stage outcomes: build_graph  *)
(* of graph.py and the graph rag_stock_chatbot.py compiles                  *)

\* a node has run in state st with result r; next is where its edge leads
Step(r, st, next) ==
    IF r.raised THEN [pc |-> "aborted", st |-> st] ELSE [pc |-> next, st |-> Merge(st, r.upd)]

\* both graphs have taken their step; rss holds the feed's answer once it was read
PairStep(a, b, rss) ==
    /\ pc' = [build_graph |-> a.pc, frontend |-> b.pc]
    /\ state' = [build_graph |-> a.st, frontend |-> b.st]
    /\ ret' = [rss |-> rss]
    /\ trace' = Append(trace, pc')
    /\ UNCHANGED <<graph, calls, writes>>

PairInit ==
    /\ graph = "both"
    /\ pc = [build_graph |-> "semantic_search", frontend |-> "semantic_search"]
    /\ state \in {[build_graph |-> [query |-> Str(q)], frontend |-> [query |-> Str(q)]] :
                    q \in Queries}
    /\ ret = [rss |-> <<>>]
    /\ trace = <<pc>>
    /\ calls = <<>>
    /\ writes = <<>>

PairSearch ==
    /\ pc["build_graph"] = "semantic_search" /\ pc["frontend"] = "semantic_search"
    /\ \E store \in StoreOutcomes :
         \E ra \in {semantic_search(state["build_graph"], store)},
            rb \in {semantic_search(state["frontend"], store)} :
            PairStep(Step(ra, state["build_graph"],
                          route_after_semantic(Merge(state["build_graph"], ra.upd))),
                     Step(rb, state["frontend"],
                          frontend_route(Merge(state["frontend"], rb.upd))),
                     ret["rss"])

PairSummarizeRag ==
    /\ pc["build_graph"] = "summarize_rag" /\ pc["frontend"] = "summarize_rag"
    /\ \E gen \in SummaryOutcomes :
         \E ra \in {summarize(state["build_graph"], gen)},
            rb \in {summarize(state["frontend"], gen)} :
            PairStep(Step(ra, state["build_graph"], "END"),
                     Step(rb, state["frontend"], "END"), ret["rss"])

PairExtractTicker ==
    /\ pc["build_graph"] = "extract_ticker" /\ pc["frontend"] = "extract_ticker"
    /\ \E gen \in TickerOutcomes :
         \E ra \in {extract_ticker(state["build_graph"], gen)},
            rb \in {extract_ticker(state["frontend"], gen)} :
            PairStep(Step(ra, state["build_graph"], "yahoo_fetch"),
                     Step(rb, state["frontend"], "yahoo_fetch_with_fallback"), ret["rss"])

PairFetch ==
    /\ pc["build_graph"] = "yahoo_fetch" /\ pc["frontend"] = "yahoo_fetch_with_fallback"
    /\ \E tool \in ToolsFor(state["build_graph"]) :
         \E feed \in FeedsFor(state["build_graph"], tool) :
            \E ra \in {yahoo_fetch_with_fallback(state["build_graph"], tool, feed)},
               rb \in {yahoo_fetch_with_fallback(state["frontend"], tool, feed)} :
               PairStep(Step(ra, state["build_graph"],
                             route_after_yahoo(Merge(state["build_graph"], ra.upd))),
                        Step(rb, state["frontend"], "summarize_articles"),
                        IF \E i \in DOMAIN ra.calls : ra.calls[i].fn = "get_yahoo_rss_news"
                        THEN <<feed>> ELSE <<>>)

\* the last node of each graph: the feed answers rss_fallback_node as it answered
\* the fetcher, when the fetcher read it
PairFinish ==
    /\ pc["build_graph"] \in {"summarize_yahoo", "rss_fallback"}
    /\ pc["frontend"] = "summarize_articles"
    /\ \E gen \in SummaryOutcomes :
         \E feed \in (IF ret["rss"] = <<>> THEN FeedOutcomes ELSE {ret["rss"][1]}) :
            \E ra \in {IF pc["build_graph"] = "summarize_yahoo"
                        THEN summarize_articles(state["build_graph"], gen)
                        ELSE rss_fallback_node(state["build_graph"], feed, gen)},
               rb \in {summarize_articles(state["frontend"], gen)} :
               PairStep(Step(ra, state["build_graph"], "END"),
                        Step(rb, state["frontend"], "END"), ret["rss"])

PairNext ==
    \/ PairSearch
    \/ PairSummarizeRag
    \/ PairExtractTicker
    \/ PairFetch
    \/ PairFinish

PairSpec == PairInit /\ [][PairNext]_vars

----------------------------------------------------------------------------
(* Vocabulary of the properties *)

Pipeline == graph \in {"build_graph", "frontend"}

FetchNodes == {"yahoo_fetch", "yahoo_fetch_with_fallback", "test_yahoo_news"}

Sources == {<<"rag">>, <<"rag_empty">>, <<"yahoo_api">>, <<"rss_feed">>, <<"none">>,
            <<"unknown">>}

\* the field is present and holds a nonempty list
PresentNonempty(st, k) == k \in DOMAIN st /\ st[k].tag = "list" /\ st[k].val # <<>>

HasSource(st, src) == "source" \in DOMAIN st /\ st["source"] = Str(src)

\* the node that ran just before the current one
Previous == IF Len(trace) >= 2 THEN trace[Len(trace) - 1] ELSE "START"

\* the calls a node made, in order
CallsOf(nodes) == SelectSeq(calls, LAMBDA c : c.node \in nodes)

\* how many node returns wrote the key
WritesOf(k) == Cardinality({i \in DOMAIN writes : k \in writes[i].keys})

SomeDoc == [score |-> 90]

\* states a router may be handed: the field missing, None, empty, nonempty
DocProbes ==
    {[query |-> Str(<<"q">>)]}
    \cup {[query |-> Str(<<"q">>), retrieved_docs |-> d] :
            d \in {None, List(<<>>), List(<<SomeDoc>>), List(<<SomeDoc, SomeDoc>>)}}

FetchProbes ==
    {[ticker |-> Str(NA)]}
    \cup {[ticker |-> Str(NA), fetched_articles |-> f] :
            f \in {None, List(<<>>), List(<<SomeDoc>>)}}
    \cup {[ticker |-> Str(NA), source |-> Str(src)] : src \in Sources}
    \cup {[ticker |-> Str(NA), fetched_articles |-> f, source |-> Str(src)] :
            f \in {None, List(<<>>), List(<<SomeDoc>>)}, src \in Sources}

\* both routers send every probed state where C1 says
RoutersOnDocProbes ==
    \A st \in DocProbes :
       /\ route_after_semantic(st) =
             IF PresentNonempty(st, "retrieved_docs") THEN "summarize_rag"
             ELSE "extract_ticker"
       /\ frontend_route(st) = route_after_semantic(st)

\* route_after_yahoo sends every probed state where C2 says
RouterOnFetchProbes ==
    \A st \in FetchProbes :
       route_after_yahoo(st) =
          IF HasSource(st, <<"yahoo_api">>) /\ PresentNonempty(st, "fetched_articles")
          THEN "summarize_yahoo" ELSE "rss_fallback"

----------------------------------------------------------------------------
(* C1: after SemanticSearch has returned, the orchestrator goes to          *)
(* summarize_rag exactly when retrieved_docs is present and nonempty, and   *)
(* to extract_ticker in every other case (None, key missing, empty list);   *)
(* this holds in both graphs and for every state a router can be handed.    *)
C1_RouteAfterSemantic ==
    /\ (Pipeline /\ Previous = "semantic_search" /\ pc # "aborted") =>
          /\ pc \in {"summarize_rag", "extract_ticker"}
          /\ pc = "summarize_rag" <=> PresentNonempty(state, "retrieved_docs")
    /\ RoutersOnDocProbes

\* the spec's example: hits scored 0.9 and 0.3, only the first survives
C1_Witness ==
    /\ graph = "build_graph" /\ pc = "summarize_rag"
    /\ \E i \in DOMAIN calls :
          calls[i].fn = "qdrant.search" /\ calls[i].out = <<[score |-> 90], [score |-> 30]>>
    /\ ScoresOf(state["retrieved_docs"].val) = <<[score |-> 90]>>

(* C2: in build_graph, after yahoo_fetch the next node is summarize_yahoo   *)
(* exactly when source is yahoo_api and fetched_articles is nonempty; every *)
(* other combination of the two goes to rss_fallback.                       *)
C2_RouteAfterYahoo ==
    /\ (graph = "build_graph" /\ Previous = "yahoo_fetch") =>
          /\ pc \in {"summarize_yahoo", "rss_fallback"}
          /\ pc = "summarize_yahoo" <=>
                (HasSource(state, <<"yahoo_api">>) /\ PresentNonempty(state, "fetched_articles"))
    /\ RouterOnFetchProbes

\* a nonempty list that is not the primary service's goes to the RSS path
C2_Witness ==
    /\ graph = "build_graph" /\ pc = "rss_fallback"
    /\ HasSource(state, <<"rss_feed">>) /\ PresentNonempty(state, "fetched_articles")

(* C3: whenever a pipeline run is at END, answer and source are both set,   *)
(* and source is one of the six provenance tags.                            *)
C3_DoneHasAnswerAndSource ==
    (Pipeline /\ pc = "END") =>
       /\ "answer" \in DOMAIN state /\ state["answer"].tag = "str"
       /\ "source" \in DOMAIN state /\ state["source"].tag = "str"
       /\ state["source"].val \in Sources

C3_Witness ==
    /\ Pipeline /\ pc = "END" /\ Previous = "summarize_rag"
    /\ HasSource(state, <<"rag_empty">>)

(* C4 as stated: a run that reaches END has written source exactly once.    *)
C4_SourceWrittenOnce ==
    (Pipeline /\ pc = "END") => WritesOf("source") = 1

(* C4 as amended: source is written exactly once in a run that ends through *)
(* summarize_rag and exactly twice in a run that ends through the live      *)
(* fetch (by the fetch node, then by the summarizing or RSS node); a run    *)
(* that an exception aborts has written it at most once.                    *)
C4_SourceWrites ==
    Pipeline =>
       /\ pc = "END" =>
             WritesOf("source") = (IF Previous = "summarize_rag" THEN 1 ELSE 2)
       /\ (pc = "END" /\ Previous # "summarize_rag") =>
             {writes[i].node : i \in {j \in DOMAIN writes : "source" \in writes[j].keys}}
                \in {{"yahoo_fetch", "summarize_yahoo"}, {"yahoo_fetch", "rss_fallback"},
                     {"yahoo_fetch_with_fallback", "summarize_articles"}}
       /\ pc = "aborted" => WritesOf("source") <= 1

C4_Witness ==
    /\ graph = "build_graph" /\ pc = "END" /\ Previous = "rss_fallback"
    /\ WritesOf("source") = 2

(* C5 as stated: at END, source is rag or rag_empty exactly when            *)
(* summarize_rag produced the answer; source is yahoo_api only if the       *)
(* answer summarizes a nonempty list the primary service returned; source   *)
(* is rss_feed only if the answer summarizes a nonempty list of RSS         *)
(* articles.                                                                *)
C5_SourceMatchesBranch ==
    (Pipeline /\ pc = "END") =>
       LET summarized == CallsOf({Previous}) IN
       /\ (HasSource(state, <<"rag">>) \/ HasSource(state, <<"rag_empty">>))
             <=> Previous = "summarize_rag"
       /\ HasSource(state, <<"yahoo_api">>) =>
             /\ \E i \in DOMAIN summarized : summarized[i].fn = "generate_content"
             /\ \E i \in DOMAIN calls :
                   /\ calls[i].fn = "get_yahoo_news" /\ calls[i].res = "nonempty"
                   /\ state["fetched_articles"] = List(calls[i].out)
       /\ HasSource(state, <<"rss_feed">>) =>
             /\ \E i \in DOMAIN summarized : summarized[i].fn = "generate_content"
             /\ \E i \in DOMAIN calls :
                   calls[i].fn = "get_yahoo_rss_news" /\ calls[i].res = "nonempty"

(* C6 as stated: when the vector-store query of semantic_search fails, the  *)
(* run goes on through extract_ticker and is never aborted by the fault.    *)
C6_StoreFailureRecovered ==
    (Pipeline /\ \E i \in DOMAIN calls :
                    calls[i].fn = "qdrant.search" /\ calls[i].res = "raise") =>
       /\ pc # "aborted"
       /\ Len(trace) >= 2 => trace[2] = "extract_ticker"

SummarizerNodes == {"summarize_rag", "summarize_yahoo", "summarize_articles", "rss_fallback"}

\* the answer the node's summarizer gives for an empty item list
EmptyResultOf(node) ==
    IF node = "summarize_rag"
    THEN summarize(Merge(state, [retrieved_docs |-> List(<<>>)]), GenNoText).upd["answer"]
    ELSE summarize_articles(Merge(state, [fetched_articles |-> List(<<>>)]),
                            GenNoText).upd["answer"]

(* C7 as stated: when the Generator call a summarizer makes for a nonempty  *)
(* item list raises or returns no text, the summarizer does not propagate   *)
(* the error and answers with the string it gives for an empty item list.   *)
C7_GeneratorFailureGivesEmptyResult ==
    Pipeline =>
       \A i \in DOMAIN calls :
          (/\ calls[i].fn = "generate_content"
           /\ calls[i].node \in SummarizerNodes
           /\ calls[i].res \in {"raise", "none"}) =>
             /\ pc # "aborted"
             /\ pc = "END" => state["answer"] = EmptyResultOf(calls[i].node)

\* the characters of a ticker symbol: letters and the dot
TickerChars == {c \in DOMAIN Ord : Ord[c] \in (65..90) \cup (97..122)} \cup {"."}

\* the output the extraction prompt asks for: N/A, or symbols separated by commas
WellFormed(text) ==
    \/ text = NA
    \/ LET parts == Split(text, ",") IN
       \A i \in DOMAIN parts : parts[i] # <<>> /\ Range(parts[i]) \subseteq TickerChars

\* the Generator call of extract_ticker failed or gave malformed text
TickerCallFailed(c) ==
    /\ c.node = "extract_ticker" /\ c.fn = "generate_content"
    /\ c.res \in {"raise", "none"} \/ ~WellFormed(Strip(c.out, Whitespace))

CleanTickerList(t) ==
    LET parts == Split(t, ",") IN
    /\ t # <<>>
    /\ \A i \in DOMAIN parts :
          /\ parts[i] # <<>> /\ parts[i] # NA
          /\ Range(parts[i]) \cap {"\"", "'", " ", "\n"} = {}

HasRun(node) == \E j \in DOMAIN writes : writes[j].node = node

SentinelTicker(st) ==
    LET t == Get(st, "ticker", Str(NA)) IN ~Truthy(t) \/ t = Str(NA)

(* C9: in one call of yahoo_fetch_with_fallback for a non-sentinel ticker   *)
(* the primary service is asked first; the RSS feed is fetched only after   *)
(* the primary query returned nothing or raised, and not at all when the    *)
(* primary query returned a nonempty list.                                  *)
C9_PrimaryBeforeRss ==
    \A node \in FetchNodes :
       (HasRun(node) /\ ~SentinelTicker(state)) =>
          LET seg == CallsOf({node}) IN
          /\ Len(seg) \in {1, 2}
          /\ seg[1].fn = "get_yahoo_news"
          /\ Len(seg) = 2 =>
                seg[2].fn = "get_yahoo_rss_news" /\ seg[1].res \in {"empty", "raise"}
          /\ seg[1].res = "nonempty" => Len(seg) = 1

C9_Witness ==
    /\ graph = "test_yahoo_fetch" /\ pc = "END"
    /\ LET seg == CallsOf({"test_yahoo_news"}) IN
       /\ Len(seg) = 2
       /\ seg[1].fn = "get_yahoo_news" /\ seg[1].res = "raise"
       /\ seg[2].fn = "get_yahoo_rss_news" /\ seg[2].res = "nonempty"

(* C10: for every input state, a state holding only a ticker included,      *)
(* yahoo_fetch_with_fallback returns fetched_articles and source; source is *)
(* yahoo_api exactly when the primary service returned a nonempty list,     *)
(* which is then fetched_articles; rss_feed exactly when the primary        *)
(* returned nothing or raised and the RSS fetch returned a nonempty list;   *)
(* none exactly when fetched_articles is empty.                             *)
C10_FetchResult ==
    \A node \in FetchNodes :
       Previous = node =>
          LET seg == CallsOf({node})
              primary == {i \in DOMAIN seg : seg[i].fn = "get_yahoo_news"}
              rss == {i \in DOMAIN seg : seg[i].fn = "get_yahoo_rss_news"}
          IN  /\ pc # "aborted"
              /\ DOMAIN ret = {"fetched_articles", "source"}
              /\ ret["fetched_articles"].tag = "list"
              /\ ret["source"] \in {Str(<<"yahoo_api">>), Str(<<"rss_feed">>), Str(<<"none">>)}
              /\ ret["source"] = Str(<<"yahoo_api">>) <=>
                    \E i \in primary : seg[i].res = "nonempty"
              /\ \A i \in primary :
                    seg[i].res = "nonempty" => ret["fetched_articles"] = List(seg[i].out)
              /\ ret["source"] = Str(<<"rss_feed">>) <=>
                    /\ \E i \in primary : seg[i].res \in {"empty", "raise"}
                    /\ \E i \in rss : seg[i].res = "nonempty"
              /\ ret["source"] = Str(<<"rss_feed">>) =>
                    \E i \in rss : ret["fetched_articles"] = List(seg[i].out)
              /\ ret["source"] = Str(<<"none">>) <=> ret["fetched_articles"].val = <<>>

C10_Witness ==
    /\ graph = "test_yahoo_fetch" /\ pc = "END"
    /\ state = [ticker |-> Str(<<"G", "O", "O", "G">>)]
    /\ ret["source"] = Str(<<"rss_feed">>)
    /\ ret["fetched_articles"].val # <<>>

\* the primary service gave nothing for the ticker: every symbol's query
\* raised or returned a string or no items, or the client itself raised
PrimaryFailed(tool) ==
    \/ \A t \in DOMAIN tool : tool[t].kind \in {"raise", "string", "empty"}
    \/ \E t \in DOMAIN tool : tool[t].kind = "object"

\* the RSS stage gave nothing: the feed raised or holds no entry
RssFailed(feed) == feed.kind = "raise" \/ feed.entries = <<>>

(* C11: yahoo_fetch_with_fallback never raises.  Whatever the primary       *)
(* service does (raise, return a string, return nothing) and whatever the   *)
(* RSS feed and the page scrapes do (raise, return nothing), the call       *)
(* returns fetched_articles and source; a primary stage that failed is      *)
(* followed by the RSS fetch, and when the RSS stage fails too the result   *)
(* is the empty list with source none.                                      *)
C11_FetcherNeverRaises ==
    /\ \A node \in FetchNodes :
          CallsOf({node}) # <<>> =>
             LET seg == CallsOf({node}) IN
             /\ \E j \in DOMAIN writes :
                   writes[j].node = node /\ writes[j].keys = {"fetched_articles", "source"}
             /\ seg[1].res \in {"raise", "empty"} =>
                   Len(seg) = 2 /\ seg[2].fn = "get_yahoo_rss_news"
             /\ (Previous = node /\ seg[Len(seg)].res \in {"raise", "empty"}) =>
                   /\ pc # "aborted"
                   /\ ret = [fetched_articles |-> List(<<>>), source |-> Str(<<"none">>)]
    /\ pc = "test_yahoo_news" =>
          \A tool \in ToolsFor(state), feed \in FeedOutcomes :
             LET r == yahoo_fetch_with_fallback(state, tool, feed) IN
             /\ ~r.raised
             /\ DOMAIN r.upd = {"fetched_articles", "source"}
             /\ (~SentinelTicker(state) /\ PrimaryFailed(tool)) =>
                   /\ Len(r.calls) = 2
                   /\ r.calls[1].fn = "get_yahoo_news"
                   /\ r.calls[2].fn = "get_yahoo_rss_news"
                   /\ RssFailed(feed) =>
                         r.upd = [fetched_articles |-> List(<<>>), source |-> Str(<<"none">>)]
                   /\ ~RssFailed(feed) =>
                         /\ r.upd["source"] = Str(<<"rss_feed">>)
                         /\ Len(r.upd["fetched_articles"].val) = Len(feed.entries)

\* the primary client raised, then the RSS fetch raised: the call returned
C11_Witness ==
    /\ graph = "test_yahoo_fetch" /\ pc = "END"
    /\ LET seg == CallsOf({"test_yahoo_news"}) IN
       /\ Len(seg) = 2
       /\ seg[1].res = "raise" /\ seg[2].res = "raise"
    /\ ret = [fetched_articles |-> List(<<>>), source |-> Str(<<"none">>)]

LiveFetchCalls == {"get_yahoo_news", "get_yahoo_rss_news"}

\* no query of the primary service and no RSS fetch of the run gave an article
Exhausted ==
    \A i \in DOMAIN calls : calls[i].fn \in LiveFetchCalls => calls[i].res # "nonempty"

\* the deterministic answers that say no data was found
NoDataAnswers(st) ==
    LET ticker == Get(st, "ticker", Str(Unknown)).val IN
    {Str(NoRecentArticles(ticker)), Str(NoRssNews(ticker)), Str(NoRelevantData)}

(* C12 as stated: a run that ends on the live-fetch path ends with source   *)
(* none and a no-data answer exactly when neither the primary service nor   *)
(* the RSS feed gave an article.                                            *)
C12_NoneIffExhausted ==
    (Pipeline /\ pc = "END" /\ Previous # "summarize_rag") =>
       ((HasSource(state, <<"none">>) /\ state["answer"] \in NoDataAnswers(state))
           <=> Exhausted)

(* C13 as stated: when extract_ticker returned the sentinel "N/A", the run  *)
(* makes no live fetch (no primary-service query, no RSS feed request) and  *)
(* ends at END with source none, an empty fetched_articles and the          *)
(* deterministic no-data answer.                                            *)
C13_SentinelMakesNoFetch ==
    (Pipeline /\ HasRun("extract_ticker") /\ state["ticker"] = Str(NA)) =>
       /\ \A i \in DOMAIN calls : calls[i].fn \notin LiveFetchCalls
       /\ pc # "aborted"
       /\ pc = "END" =>
             /\ HasSource(state, <<"none">>)
             /\ state["fetched_articles"] = List(<<>>)
             /\ state["answer"] \in NoDataAnswers(state)

\* retrieval was absent and the primary service returned articles for the
\* non-sentinel ticker extract_ticker gave
PrimaryGaveArticles ==
    /\ Pipeline
    /\ "retrieved_docs" \in DOMAIN state /\ state["retrieved_docs"] = None
    /\ HasRun("extract_ticker") /\ ~SentinelTicker(state)
    /\ \E i \in DOMAIN calls :
          /\ calls[i].node \in FetchNodes
          /\ calls[i].fn = "get_yahoo_news" /\ calls[i].res = "nonempty"

(* C14 as stated: when retrieval is absent, extract_ticker gives a          *)
(* non-sentinel ticker and the primary service returns at least one         *)
(* article, the run is not aborted and ends at END with source yahoo_api    *)
(* and a nonempty answer, whatever the Generator returns to the summarizer  *)
(* (text, whitespace only, no text, a failure).                             *)
C14_PrimaryArticlesGiveAnswer ==
    PrimaryGaveArticles =>
       /\ pc \in {"summarize_yahoo", "summarize_articles", "END"}
       /\ pc = "END" =>
             /\ HasSource(state, <<"yahoo_api">>)
             /\ state["answer"].tag = "str" /\ state["answer"].val # <<>>

\* the scrape of the entry's page fails: an exception or a status other than 200
ScrapeFails(e) == e.page.status # "200"

\* feeds that return entries, every one of them with a failing page scrape
FailingFeeds ==
    {f \in FeedOutcomes :
        f.kind = "ok" /\ f.entries # <<>> /\ \A i \in DOMAIN f.entries : ScrapeFails(f.entries[i])}

\* the primary service answers every symbol of the ticker with no items
EmptyTool(st) ==
    [t \in Range(SymbolsOf(Get(st, "ticker", Str(NA)).val)) |-> [kind |-> "empty", items |-> <<>>]]

\* every article carries the RSS summary of its entry as full_text
SummaryAsFullText(articles, feed) ==
    /\ Len(articles) = Len(feed.entries)
    /\ \A i \in DOMAIN articles :
          /\ articles[i].full_text = feed.entries[i].summary
          /\ articles[i].summary = feed.entries[i].summary

(* C15: when the primary service returns nothing and the RSS feed returns   *)
(* entries whose page scrapes all fail (an exception or a status other than *)
(* 200), the fetcher and the RSS node build one article per entry, each     *)
(* with the entry's RSS summary as its full_text, under source rss_feed;    *)
(* and a run in which the primary service gave nothing and every RSS fetch  *)
(* returned articles is not aborted and ends with source rss_feed.          *)
C15_SummaryFallback ==
    /\ (pc \in {"yahoo_fetch", "yahoo_fetch_with_fallback", "test_yahoo_news"}
           /\ ~SentinelTicker(state)) =>
          \A feed \in FailingFeeds :
             LET r == yahoo_fetch_with_fallback(state, EmptyTool(state), feed) IN
             /\ ~r.raised
             /\ r.upd["source"] = Str(<<"rss_feed">>)
             /\ SummaryAsFullText(r.upd["fetched_articles"].val, feed)
    /\ pc = "rss_fallback" =>
          \A feed \in FailingFeeds :
             LET r == rss_fallback_node(state, feed, GenNoText) IN
             /\ ~r.raised
             /\ r.upd["source"] = Str(<<"rss_feed">>)
             /\ SummaryAsFullText(r.calls[1].out, feed)
    /\ (/\ Pipeline
        /\ \E i \in DOMAIN calls :
              calls[i].fn = "get_yahoo_news" /\ calls[i].res = "empty"
        /\ \E i \in DOMAIN calls : calls[i].fn = "get_yahoo_rss_news"
        /\ \A i \in DOMAIN calls :
              calls[i].fn = "get_yahoo_rss_news" => calls[i].res = "nonempty") =>
          /\ pc # "aborted"
          /\ HasSource(state, <<"rss_feed">>)
          /\ pc = "END" => "answer" \in DOMAIN state

\* scenario 2: the article summarized at the end carries only its RSS summary
C15_Witness ==
    /\ Pipeline /\ pc = "END" /\ HasSource(state, <<"rss_feed">>)
    /\ \E i \in DOMAIN calls :
          /\ calls[i].fn = "get_yahoo_news" /\ calls[i].res = "empty"
    /\ \E i \in DOMAIN calls :
          /\ calls[i].fn = "get_yahoo_rss_news" /\ calls[i].res = "nonempty"
          /\ calls[i].node \in FetchNodes
          /\ calls[i].out[1].full_text = <<"S600">>
          /\ calls[i].out[1].summary = <<"S600">>
          /\ state["fetched_articles"] = List(calls[i].out)

\* docs are the matches that pass the threshold among the first three of
\* hits, in the order of hits, none left out
PassingPrefix(docs, hits) ==
    LET n == IF Len(hits) < 3 THEN Len(hits) ELSE 3 IN
    /\ Len(docs) <= n
    /\ \A i \in DOMAIN docs : docs[i].score = hits[i].score /\ docs[i].score >= 50
    /\ \A i \in 1..(Len(docs) - 1) : docs[i].score >= docs[i + 1].score
    /\ Len(docs) < n => hits[Len(docs) + 1].score < 50

(* C16: for every list of matches the vector store returns, best first,     *)
(* retrieved_docs of semantic_search, when it is a list, holds only         *)
(* documents with score >= 0.5, at most three of them, in descending score  *)
(* order; it holds every match among the first three that passes, a match   *)
(* of score exactly 0.5 included.                                           *)
C16_RetrievedDocs ==
    /\ pc = "semantic_search" =>
          \A store \in StoreOutcomes :
             LET r == semantic_search(state, store) IN
             (store.kind = "ok" /\ r.upd["retrieved_docs"].tag = "list") =>
                PassingPrefix(r.upd["retrieved_docs"].val, store.hits)
    /\ (Pipeline /\ "retrieved_docs" \in DOMAIN state
           /\ state["retrieved_docs"].tag = "list") =>
          \E i \in DOMAIN calls :
             /\ calls[i].fn = "qdrant.search" /\ calls[i].res = "ok"
             /\ PassingPrefix(state["retrieved_docs"].val, calls[i].out)

\* matches scored 0.9, 0.5, 0.3: the first two are kept, the 0.5 one included
C16_Witness ==
    /\ Pipeline /\ Previous = "semantic_search"
    /\ \E i \in DOMAIN calls :
          /\ calls[i].fn = "qdrant.search"
          /\ calls[i].out = <<[score |-> 90], [score |-> 50], [score |-> 30]>>
    /\ ScoresOf(state["retrieved_docs"].val) = <<[score |-> 90], [score |-> 50]>>

\* no match of the list passes the threshold
NonePasses(hits) == \A i \in DOMAIN hits : hits[i].score < 50

(* C17: semantic_search never returns an empty list as retrieved_docs: it   *)
(* returns None when no match passes the 0.5 threshold (the store returning *)
(* no match at all included) and a nonempty list otherwise.                 *)
C17_AbsentNotEmpty ==
    /\ pc = "semantic_search" =>
          \A store \in StoreOutcomes :
             LET docs == semantic_search(state, store).upd IN
             store.kind = "ok" =>
                /\ DOMAIN docs = {"retrieved_docs"}
                /\ docs["retrieved_docs"] # List(<<>>)
                /\ docs["retrieved_docs"] = None <=> NonePasses(store.hits)
                /\ docs["retrieved_docs"] # None =>
                      docs["retrieved_docs"].tag = "list" /\ docs["retrieved_docs"].val # <<>>
    /\ (Pipeline /\ "retrieved_docs" \in DOMAIN state) =>
          /\ state["retrieved_docs"] # List(<<>>)
          /\ \E i \in DOMAIN calls :
                /\ calls[i].fn = "qdrant.search" /\ calls[i].res = "ok"
                /\ state["retrieved_docs"] = None <=> NonePasses(calls[i].out)

\* the store returned no match at all: retrieved_docs is None
C17_Witness ==
    /\ Pipeline /\ Previous = "semantic_search"
    /\ \E i \in DOMAIN calls :
          calls[i].fn = "qdrant.search" /\ calls[i].res = "ok" /\ calls[i].out = <<>>
    /\ state["retrieved_docs"] = None

\* the tokens of a ticker string
Tokens(t) == Split(t, ",")

(* C18 as stated: the normalisation extract_ticker applies to the           *)
(* Generator's raw text is idempotent (normalising the ticker it returned   *)
(* gives that ticker again); tokens that differ only in case collapse to    *)
(* one; an empty or sentinel raw text gives the sentinel "N/A".             *)
C18_NormalizeIdempotent ==
    Pipeline =>
       \A i \in DOMAIN calls :
          (calls[i].node = "extract_ticker" /\ calls[i].fn = "generate_content"
              /\ "ticker" \in DOMAIN state) =>
             LET raw_ticker == RawTicker([kind |-> calls[i].res, text |-> calls[i].out])
                 ticker == state["ticker"].val
             IN  /\ ticker = NormalizeTicker(raw_ticker)
                 /\ NormalizeTicker(ticker) = ticker
                 /\ \A j, k \in DOMAIN Tokens(ticker) :
                       Upper(Tokens(ticker)[j]) = Upper(Tokens(ticker)[k]) => j = k
                 /\ raw_ticker \in {<<>>, NA} => ticker = NA

\* the current state with retrieved_docs missing, None or the empty list
EmptyDocStates(st) ==
    {[k \in DOMAIN st \ {"retrieved_docs"} |-> st[k]],
     Merge(st, [retrieved_docs |-> None]),
     Merge(st, [retrieved_docs |-> List(<<>>)])}

\* summarize_articles has just ended the run on an empty fetched_articles
SummarizedNoArticles ==
    /\ pc = "END" /\ Previous = "summarize_articles"
    /\ state["fetched_articles"].val = <<>>

CountCalls(fns) == Cardinality({i \in DOMAIN calls : calls[i].fn \in fns})

(* C20 as stated: in every pipeline run the Generator is called at most     *)
(* twice, and at most two live fetches are attempted in total (queries of   *)
(* the primary service for the ticker string plus RSS feed requests).       *)
C20_BoundedWork ==
    Pipeline =>
       /\ CountCalls({"generate_content"}) <= 2
       /\ CountCalls(LiveFetchCalls) <= 2

\* the orchestrator state a node of either graph stands for
OrchestratorState(node) ==
    CASE node = "semantic_search" -> "SemanticSearch"
      [] node = "summarize_rag" -> "SummarizeRag"
      [] node = "extract_ticker" -> "ExtractTicker"
      [] node \in {"yahoo_fetch", "yahoo_fetch_with_fallback"} -> "FetchNews"
      [] node \in {"summarize_yahoo", "summarize_articles"} -> "SummarizeFetched"
      [] node = "rss_fallback" -> "FetchRss"
      [] node = "END" -> "Done"
      [] OTHER -> node

Paths ==
    {<<"SemanticSearch", "SummarizeRag", "Done">>,
     <<"SemanticSearch", "ExtractTicker", "FetchNews", "SummarizeFetched", "Done">>,
     <<"SemanticSearch", "ExtractTicker", "FetchNews", "FetchRss", "Done">>}

\* the orchestrator states the run has entered, the abort mark left out
Visited ==
    LET t == IF pc = "aborted" THEN SubSeq(trace, 1, Len(trace) - 1) ELSE trace
    IN  [i \in DOMAIN t |-> OrchestratorState(t[i])]

\* a stage call of the run did not return: it raised out of its node
SomeStageRaised ==
    \E i \in DOMAIN calls :
       /\ calls[i].res = "raise"
       /\ calls[i].node \in {"semantic_search", "summarize_rag", "rss_fallback"}

(* C21: a pipeline run started at SemanticSearch follows one of the three   *)
(* paths SemanticSearch-SummarizeRag-Done, SemanticSearch-ExtractTicker-    *)
(* FetchNews-SummarizeFetched-Done, SemanticSearch-ExtractTicker-FetchNews- *)
(* FetchRss-Done, entering no state twice; short of Done the next node can  *)
(* always run, so the run goes on until Done; it stops short of Done only   *)
(* when a stage call raised instead of returning.                           *)
C21_OnePathToDone ==
    Pipeline =>
       /\ \E path \in Paths : IsPrefix(Visited, path)
       /\ pc = "END" => Visited \in Paths
       /\ pc = "aborted" => SomeStageRaised
       /\ pc \in {"END", "aborted"} \/ ENABLED Next

\* the RSS path of build_graph run to its end
C21_Witness ==
    /\ graph = "build_graph" /\ pc = "END"
    /\ trace = <<"semantic_search", "extract_ticker", "yahoo_fetch", "rss_fallback", "END">>
    /\ ~SomeStageRaised

----------------------------------------------------------------------------
(* C22: the text block either summarizer passes to the Generator is at most *)
(* 7000 characters long, for every list it summarizes, and is the first     *)
(* 7000 characters of the untruncated concatenation of the blocks.          *)

\* the number of characters of a text block
ContextLen(c) == TextLen(c.whole) + (IF c.part = <<>> THEN 0 ELSE c.part[1].len)

\* the untruncated concatenation of the blocks of the list in state
Untruncated ==
    IF graph = "summarize"
    THEN JoinWith([k \in DOMAIN state["retrieved_docs"].val |->
                      DocBlock(k, state["retrieved_docs"].val[k])], <<"\n", "\n">>)
    ELSE JoinWith([k \in DOMAIN state["fetched_articles"].val |->
                      ArticleBlock(k, state["fetched_articles"].val[k])], <<"\n", "\n">>)

\* c is the first n characters of the text t
FirstChars(c, t, n) ==
    /\ ContextLen(c) = (IF TextLen(t) < n THEN TextLen(t) ELSE n)
    /\ IsPrefix(c.whole, t)
    /\ c.part # <<>> =>
          /\ Len(c.whole) < Len(t)
          /\ c.part[1].chunk = t[Len(c.whole) + 1]
          /\ c.part[1].len \in 1..(ChunkLen(t[Len(c.whole) + 1]) - 1)

ContextBuilt == graph \in {"summarize", "summarize_articles"} /\ pc # "call"

C22_ContextIsFirst7000 ==
    ContextBuilt =>
       /\ ContextLen(ret["val"]) <= ContextLimit
       /\ FirstChars(ret["val"], Untruncated, ContextLimit)

\* two articles whose blocks are longer than 7000 characters together, cut to 7000
C22_Witness ==
    /\ ContextBuilt /\ graph = "summarize_articles"
    /\ Len(state["fetched_articles"].val) = 2
    /\ TextLen(Untruncated) > ContextLimit
    /\ ContextLen(ret["val"]) = ContextLimit

----------------------------------------------------------------------------
(* C23: every article placed in fetched_articles or summarized by the       *)
(* pipeline, from the primary service or from the RSS feed, has a summary   *)
(* of at most 500 characters.                                               *)

\* the article lists the run has stored or handed to a summarizer
ArticleLists ==
    (IF "fetched_articles" \in DOMAIN state /\ state["fetched_articles"].tag = "list"
     THEN {state["fetched_articles"].val} ELSE {})
    \cup {calls[i].out : i \in {j \in DOMAIN calls : /\ calls[j].fn = "get_yahoo_rss_news"
                                                     /\ calls[j].res = "nonempty"}}

C23_SummaryAtMost500 ==
    Pipeline =>
       \A articles \in ArticleLists : \A k \in DOMAIN articles :
          TextLen(articles[k].summary) <= SummaryLen

----------------------------------------------------------------------------
(* C24: scrape_yahoo_article concatenates the text of at most the first 15  *)
(* paragraphs of a page: for a page with more than 15 paragraphs, the text  *)
(* it returns holds nothing from paragraph 16 onward, as the inline scrape  *)
(* of the primary-service client does.                                      *)

\* the text of the first 15 paragraphs of the page in state
FirstParagraphs == Join(Prefix(Paragraphs(state["page"]), MaxParagraphs), " ")

Scraped(fn) == graph = "scrape" /\ pc = fn /\ state["page"].status = "200"

C24_ScrapeFirst15 ==
    (Scraped("scrape_yahoo_article") /\ Len(Paragraphs(state["page"])) > MaxParagraphs) =>
       ret["val"] = Strip(FirstParagraphs, Whitespace)

\* the inline scrape of the primary-service client keeps to the first 15 paragraphs
C24_InlineScrapeFirst15 ==
    Scraped("get_yahoo_news") => ret["val"] = FirstParagraphs

C24_InlineWitness ==
    /\ Scraped("get_yahoo_news")
    /\ Len(Paragraphs(state["page"])) = MaxParagraphs + 1
    /\ Len(ret["val"]) = 2 * MaxParagraphs - 1

----------------------------------------------------------------------------
(* C25: a run in which the Retriever returned a nonempty document list      *)
(* never executes ExtractTicker, FetchNews or the RSS path: SummarizeRag    *)
(* goes directly to Done, also when it tags source = rag_empty because the  *)
(* Generator's answer contains "No relevant data found" or is missing.      *)

RetrievedSome ==
    /\ Pipeline /\ HasRun("semantic_search")
    /\ state["retrieved_docs"].tag = "list" /\ state["retrieved_docs"].val # <<>>

RagPath == <<"SemanticSearch", "SummarizeRag", "Done">>

----------------------------------------------------------------------------
(* C26: when the RSS fetch made by rss_fallback_node fails with an          *)
(* exception the failure is not fatal: the run still reaches Done with a    *)
(* textual no-data answer and a source set, never a propagated fault.       *)

RssPathFetchRaised ==
    \E i \in DOMAIN calls :
       /\ calls[i].node = "rss_fallback" /\ calls[i].fn = "get_yahoo_rss_news"
       /\ calls[i].res = "raise"

C26_RssPathFailureNotFatal ==
    (graph = "build_graph" /\ RssPathFetchRaised) =>
       /\ pc = "END"
       /\ "answer" \in DOMAIN state /\ state["answer"] \in NoDataAnswers(state)
       /\ "source" \in DOMAIN state /\ state["source"].tag = "str"

----------------------------------------------------------------------------
(* C27: for every raw Generator text, the ticker extract_ticker returns is  *)
(* the sentinel "N/A" or a comma-joined list of tokens that are pairwise    *)
(* distinct, in ascending sorted order, all non-empty, all uppercase, none  *)
(* equal to "N/A" and none containing a quotation mark, space or newline;   *)
(* an empty or whitespace-only query gives "N/A" without a Generator call.  *)

SortedCleanList(t) ==
    LET tokens == Tokens(t) IN
    /\ \A j \in DOMAIN tokens :
          /\ tokens[j] # <<>> /\ tokens[j] # NA
          /\ Upper(tokens[j]) = tokens[j]
          /\ Range(tokens[j]) \cap {"\"", "'", " ", "\n"} = {}
    /\ \A j, k \in DOMAIN tokens : j # k => tokens[j] # tokens[k]
    /\ \A j \in 1..(Len(tokens) - 1) : StrLess(tokens[j], tokens[j + 1])

BlankQuery == Strip(state["query"].val, Whitespace) = <<>>

C27_TickerShape ==
    (Pipeline /\ HasRun("extract_ticker")) =>
       /\ state["ticker"].tag = "str"
       /\ state["ticker"] = Str(NA) \/ SortedCleanList(state["ticker"].val)
       /\ BlankQuery => /\ state["ticker"] = Str(NA)
                        /\ \A i \in DOMAIN calls : calls[i].node # "extract_ticker"

\* the raw text AB,ab,AB gives AB; the raw text C,AB gives AB,C
C27_Witness ==
    /\ Pipeline /\ HasRun("extract_ticker")
    /\ \E i \in DOMAIN calls :
          /\ calls[i].node = "extract_ticker"
          /\ calls[i].out = <<"C", ",", "A", "B", "\n">>
    /\ state["ticker"] = Str(<<"A", "B", ",", "C">>)

\* a whitespace-only query gives the sentinel and no Generator call
C27_BlankWitness ==
    /\ Pipeline /\ HasRun("extract_ticker") /\ BlankQuery
    /\ state["ticker"] = Str(NA)

----------------------------------------------------------------------------
(* C28: the graph the front-end compiles and the graph build_graph returns  *)
(* are observationally equivalent: for every combination of stage outcomes  *)
(* (retrieval, ticker, primary fetch, RSS fetch, Generator) they end with   *)
(* the same final source and the same answer.                               *)

BothStopped == graph = "both" /\ \A g \in DOMAIN pc : pc[g] \in {"END", "aborted"}

\* what a run shows when it has stopped
Observed(g) ==
    IF pc[g] = "aborted" THEN <<"aborted">>
    ELSE <<state[g]["source"], state[g]["answer"]>>

C28_GraphsEquivalent ==
    BothStopped => Observed("build_graph") = Observed("frontend")

\* the runs in which the two graphs do end alike: the RAG path, and the path
\* on which the primary service gave articles
C28_SameOnSharedPaths ==
    (BothStopped /\ Len(trace) >= 2
        /\ trace[Len(trace) - 1]["build_graph"] \in {"summarize_rag", "summarize_yahoo"}) =>
       Observed("build_graph") = Observed("frontend")

C28_SharedWitness ==
    /\ BothStopped /\ trace[Len(trace) - 1]["build_graph"] = "summarize_yahoo"
    /\ pc["build_graph"] = "END"
    /\ Observed("build_graph") = Observed("frontend")

----------------------------------------------------------------------------
(* C29: rss_fallback_node writes only answer and source and leaves query,   *)
(* retrieved_docs, ticker and fetched_articles unchanged, so in every run   *)
(* that ends through the RSS path the final fetched_articles is exactly the *)
(* list the News Fetcher returned, and the final answer is a summary of     *)
(* exactly that list.                                                       *)

EndedThroughRss == graph = "build_graph" /\ pc = "END" /\ Previous = "rss_fallback"

\* the list yahoo_fetch_with_fallback returned, read from the answers it got
FetcherReturned ==
    LET cs == CallsOf({"yahoo_fetch"})
        got == {i \in DOMAIN cs : cs[i].res = "nonempty"}
    IN  IF got = {} THEN <<>> ELSE cs[CHOOSE i \in got : \A j \in got : i <= j].out

\* the list rss_fallback_node summarized: the one it fetched itself
RssPathSummarized == CallsOf({"rss_fallback"})[1].out

RssPathFrame ==
    /\ writes[Len(writes)] = [node |-> "rss_fallback", keys |-> {"answer", "source"}]
    /\ state["fetched_articles"] = List(FetcherReturned)

C29_RssPathSummarizesFetched ==
    EndedThroughRss =>
       /\ RssPathFrame
       /\ RssPathSummarized = state["fetched_articles"].val

\* the part of C29 that holds: the frame of rss_fallback_node
C29_RssPathFrameOnly ==
    EndedThroughRss => RssPathFrame

C29_FrameWitness ==
    /\ EndedThroughRss
    /\ state["fetched_articles"].val # <<>>
    /\ RssPathSummarized # state["fetched_articles"].val

============================================================================
